---------------------------- MODULE Spec2Model ----------------------------
(***************************************************************************)
(* The ERC-721 style ownership ledger of src/src/main.rs (ink! contract    *)
(* `erc721`): four storage mappings, six state-changing messages, and the  *)
(* private helpers they call.  Every helper is an operator over a storage  *)
(* record and returns an outcome record [res, st, ev]: the result of the   *)
(* call, the storage it leaves behind and the events it emitted.  The      *)
(* contract has no rollback of its own: a helper that returns Err (or      *)
(* panics) after an earlier helper has written leaves those writes in      *)
(* place.  "Panic" is the outcome of an expect() on None and of a u32 step *)
(* that overflows in a build with overflow checks.                         *)
(***************************************************************************)
EXTENDS Integers, Sequences, FiniteSets

\* ---------------------------------------------------------------- bounds
MaxAccount == 2
MaxTokenId == 2
MaxDrift == 2
MaxGrants == 1
MaxScenarioAccount == 3

\* ------------------------------------------------------ program constants
AccountBytes == 32
U32Bits == 32

\* A u32 is kept as two 16-bit limbs <<high, low>>, so that all 32 bits are
\* there: U32(n) is the u32 of a small number n.
LimbModulus == 2 ^ (U32Bits \div 2)
U32(n) == <<n \div LimbModulus, n % LimbModulus>>
U32Max == <<LimbModulus - 1, LimbModulus - 1>>

\* Option<T>: None is the empty tuple, Some(x) the one-element tuple.
None == <<>>
Some(x) == <<x>>

\* enum Error (main.rs 18-26).  An outcome's res is one of these, "Ok", or
\* "Panic".
Error == {"NotOwner", "NotApproved", "TokenExists", "TokenNotFound",
          "CannotInsert", "CannotFetchValue", "NotAllowed"}

\* ------------------------------------------------------------- AccountId
\* An AccountId is a 32-byte array; the model names the account whose bytes
\* are the little-endian digits of n by the number n.
RECURSIVE LittleEndian(_)
LittleEndian(bytes) ==
    IF Len(bytes) = 0 THEN 0 ELSE Head(bytes) + 256 * LittleEndian(Tail(bytes))

\* AccountId::from(bytes): the account the array's bytes name.
AccountIdFrom(bytes) == LittleEndian(bytes)

\* AccountId::from([0x0; 32]) (main.rs 132, 165, 210, 241): the NULL sentinel.
ZeroAccount == AccountIdFrom([i \in 1..AccountBytes |-> 0])

\* AccountId::from([0x0, 32]) (main.rs 260): the array as written holds the
\* two bytes 0 and 32, not AccountBytes zeros, so it does not name the NULL
\* sentinel.
AddTokenSentinel == AccountIdFrom(<<0, 32>>)

Accounts == 0..MaxAccount
Tokens == 1..MaxTokenId

\* scenario is the script of calls being played and how far it has got; its
\* pc is "none" when the ledger is driven by arbitrary calls.
VARIABLES token_owner, token_approvals, owned_tokens_count, operator_approvals,
          overflow_checks, scenario

vars == <<token_owner, token_approvals, owned_tokens_count, operator_approvals,
          overflow_checks, scenario>>

\* The four mappings of struct Erc721 as one record.
Storage ==
    [token_owner |-> token_owner, token_approvals |-> token_approvals,
     owned_tokens_count |-> owned_tokens_count,
     operator_approvals |-> operator_approvals]

\* ------------------------------------------------------------- outcomes
Ok(s, ev) == [res |-> "Ok", st |-> s, ev |-> ev]
Err(e, s) == [res |-> e, st |-> s, ev |-> <<>>]
Panic(s) == [res |-> "Panic", st |-> s, ev |-> <<>>]

TransferEvent(from, to, id) == [event |-> "Transfer", from |-> from, to |-> to, id |-> id]
ApprovalEvent(from, to, id) == [event |-> "Approval", from |-> from, to |-> to, id |-> id]
ApprovalForAllEvent(owner, operator, approved) ==
    [event |-> "ApprovalForAll", owner |-> owner, operator |-> operator,
     approved |-> approved]

\* ------------------------------------------------------------ u32 steps
\* `c + 1` and `c - 1` on u32 (main.rs 264, 234, 285): the step overflows at
\* U32Max, resp. at 0; with overflow checks it then panics, without them it
\* wraps.
AddOverflows(c) == c = U32Max
SubOverflows(c) == c = U32(0)
WrappingAdd(c) ==
    IF c[2] < LimbModulus - 1 THEN <<c[1], c[2] + 1>>
    ELSE <<(c[1] + 1) % LimbModulus, 0>>
WrappingSub(c) ==
    IF c[2] > 0 THEN <<c[1], c[2] - 1>>
    ELSE <<(c[1] - 1) % LimbModulus, LimbModulus - 1>>

\* ---------------------------------------------------------- read helpers
owner_of(s, id) == s.token_owner[id]
exists(s, id) == s.token_owner[id] # None
balance_of_or_zero(s, of) ==
    IF s.owned_tokens_count[of] = None THEN U32(0) ELSE s.owned_tokens_count[of][1]
balance_of(s, owner) == balance_of_or_zero(s, owner)
approved_for_all(s, owner, operator) == <<owner, operator>> \in s.operator_approvals

\* approved_or_owner as it would be if the token's delegate were not consulted.
approved_or_owner_ignores_delegate(s, from, id) ==
    LET owner == owner_of(s, id) IN
    IF from = Some(ZeroAccount) THEN "false"
    ELSE IF from = owner THEN "true"
    ELSE IF owner = None THEN "panic"
    ELSE IF approved_for_all(s, owner[1], from[1]) THEN "true" ELSE "false"

\* approved_or_owner(Some(from), id): "true", "false", or "panic" when the
\* third disjunct is reached with no owner (owner.expect).
approved_or_owner(s, from, id) ==
    LET owner == owner_of(s, id) IN
    IF from = Some(ZeroAccount) THEN "false"
    ELSE IF from = owner THEN "true"
    ELSE IF from = s.token_approvals[id] THEN "true"
    ELSE IF owner = None THEN "panic"
    ELSE IF approved_for_all(s, owner[1], from[1]) THEN "true" ELSE "false"

\* --------------------------------------------------------- write helpers
\* clear_approval as it would be if it removed nothing.
clear_approval_keeps_entry(s, id) == s

clear_approval(s, id) == [s EXCEPT !.token_approvals[id] = None]

add_token_to(s, to, id) ==
    IF s.token_owner[id] # None THEN Err("TokenExists", s)
    ELSE IF to = AddTokenSentinel THEN Err("NotAllowed", s)
    ELSE LET c == s.owned_tokens_count[to] IN
         IF c # None /\ AddOverflows(c[1]) /\ overflow_checks THEN Panic(s)
         ELSE LET count == IF c = None THEN U32(1) ELSE WrappingAdd(c[1]) IN
              Ok([s EXCEPT !.owned_tokens_count[to] = Some(count),
                           !.token_owner[id] = Some(to)], <<>>)

remove_token_from(s, from, id) ==
    IF s.token_owner[id] = None THEN Err("TokenNotFound", s)
    ELSE LET c == s.owned_tokens_count[from] IN
         IF c = None THEN Err("CannotFetchValue", s)
         ELSE IF SubOverflows(c[1]) /\ overflow_checks THEN Panic(s)
         ELSE Ok([s EXCEPT !.owned_tokens_count[from] = Some(WrappingSub(c[1])),
                           !.token_owner[id] = None], <<>>)

\* transfer_token_from as it would be if it authorized the supplied `from`
\* instead of the caller.
transfer_token_from_authorizes_from(s, caller, from, to, id) ==
    IF ~exists(s, id) THEN Err("TokenNotFound", s)
    ELSE LET auth == approved_or_owner(s, Some(from), id) IN
    IF auth = "panic" THEN Panic(s)
    ELSE IF auth = "false" THEN Err("NotApproved", s)
    ELSE LET s1 == clear_approval(s, id)
             r2 == remove_token_from(s1, from, id) IN
    IF r2.res # "Ok" THEN r2
    ELSE LET r3 == add_token_to(r2.st, to, id) IN
    IF r3.res # "Ok" THEN r3
    ELSE Ok(r3.st, <<TransferEvent(from, to, id)>>)

\* transfer_token_from: the writes go in the order clear_approval,
\* remove_token_from, add_token_to, and a `?` that returns early leaves the
\* writes made before it.
transfer_token_from(s, caller, from, to, id) ==
    IF ~exists(s, id) THEN Err("TokenNotFound", s)
    ELSE LET auth == approved_or_owner(s, Some(caller), id) IN
    IF auth = "panic" THEN Panic(s)
    ELSE IF auth = "false" THEN Err("NotApproved", s)
    ELSE LET s1 == clear_approval(s, id)
             r2 == remove_token_from(s1, from, id) IN
    IF r2.res # "Ok" THEN r2
    ELSE LET r3 == add_token_to(r2.st, to, id) IN
    IF r3.res # "Ok" THEN r3
    ELSE Ok(r3.st, <<TransferEvent(from, to, id)>>)

\* approve_for as it would be if the token's current delegate could approve.
approve_for_allows_delegate(s, caller, to, id) ==
    LET owner == owner_of(s, id) IN
    IF owner = None THEN Panic(s)
    ELSE IF ~(owner = Some(caller) \/ approved_for_all(s, owner[1], caller)
              \/ s.token_approvals[id] = Some(caller))
    THEN Err("NotAllowed", s)
    ELSE IF to = ZeroAccount THEN Err("NotAllowed", s)
    ELSE IF s.token_approvals[id] # None THEN Err("CannotInsert", s)
    ELSE Ok([s EXCEPT !.token_approvals[id] = Some(to)],
            <<ApprovalEvent(caller, to, id)>>)

\* approve_for as it would be if a second approve overwrote the slot.
approve_for_overwrites(s, caller, to, id) ==
    LET owner == owner_of(s, id) IN
    IF owner = None THEN Panic(s)
    ELSE IF ~(owner = Some(caller) \/ approved_for_all(s, owner[1], caller))
    THEN Err("NotAllowed", s)
    ELSE IF to = ZeroAccount THEN Err("NotAllowed", s)
    ELSE Ok([s EXCEPT !.token_approvals[id] = Some(to)],
            <<ApprovalEvent(caller, to, id)>>)

\* approve_for: with no owner, `owner == Some(caller)` is false and the
\* second disjunct unwraps None (owner.expect), which panics.
approve_for(s, caller, to, id) ==
    LET owner == owner_of(s, id) IN
    IF owner = None THEN Panic(s)
    ELSE IF ~(owner = Some(caller) \/ approved_for_all(s, owner[1], caller))
    THEN Err("NotAllowed", s)
    ELSE IF to = ZeroAccount THEN Err("NotAllowed", s)
    ELSE IF s.token_approvals[id] # None THEN Err("CannotInsert", s)
    ELSE Ok([s EXCEPT !.token_approvals[id] = Some(to)],
            <<ApprovalEvent(caller, to, id)>>)

\* approve_for_all as it would be without the test of `to` against the caller.
approve_for_all_allows_self(s, caller, to, approved) ==
    Ok([s EXCEPT !.operator_approvals =
            IF approved THEN @ \cup {<<caller, to>>}
            ELSE @ \ {<<caller, to>>}],
       <<ApprovalForAllEvent(caller, to, approved)>>)

approve_for_all(s, caller, to, approved) ==
    IF to = caller THEN Err("NotAllowed", s)
    ELSE Ok([s EXCEPT !.operator_approvals =
                 IF approved THEN @ \cup {<<caller, to>>}
                 ELSE @ \ {<<caller, to>>}],
            <<ApprovalForAllEvent(caller, to, approved)>>)

\* -------------------------------------------------------------- messages
\* The counter that `c - 1` of remove_token_from (main.rs 283-285) is applied
\* to, None when the function returns before it.
remove_token_from_operand(s, from, id) ==
    IF s.token_owner[id] = None THEN None ELSE s.owned_tokens_count[from]

\* The counter that `c - 1` is applied to in a transfer_token_from call, None
\* when the call ends before remove_token_from.
transfer_token_from_operand(s, caller, from, to, id) ==
    IF ~exists(s, id) THEN None
    ELSE IF approved_or_owner(s, Some(caller), id) # "true" THEN None
    ELSE remove_token_from_operand(clear_approval(s, id), from, id)

\* The counter that `c - 1` of burn (main.rs 232-234) is applied to, None when
\* burn returns before it.
burn_operand(s, caller, id) ==
    IF s.token_owner[id] # Some(caller) THEN None ELSE s.owned_tokens_count[caller]

transfer(s, caller, destination, id) ==
    transfer_token_from(s, caller, caller, destination, id)

transfer_from(s, caller, from, to, id) ==
    transfer_token_from(s, caller, from, to, id)

approve(s, caller, to, id) == approve_for(s, caller, to, id)

set_approval_for_all(s, caller, to, approved) ==
    approve_for_all(s, caller, to, approved)

mint(s, caller, id) ==
    LET r == add_token_to(s, caller, id) IN
    IF r.res # "Ok" THEN r
    ELSE Ok(r.st, <<TransferEvent(ZeroAccount, caller, id)>>)

\* burn as it would be if the token's delegate could burn too.
burn_allows_delegate(s, caller, id) ==
    LET owner == s.token_owner[id] IN
    IF owner = None THEN Err("TokenNotFound", s)
    ELSE IF owner[1] # caller /\ s.token_approvals[id] # Some(caller)
    THEN Err("NotOwner", s)
    ELSE LET c == s.owned_tokens_count[caller] IN
         IF c = None THEN Err("CannotFetchValue", s)
         ELSE IF SubOverflows(c[1]) /\ overflow_checks THEN Panic(s)
         ELSE Ok([s EXCEPT !.owned_tokens_count[caller] = Some(WrappingSub(c[1])),
                           !.token_owner[id] = None],
                 <<TransferEvent(caller, ZeroAccount, id)>>)

burn(s, caller, id) ==
    LET owner == s.token_owner[id] IN
    IF owner = None THEN Err("TokenNotFound", s)
    ELSE IF owner[1] # caller THEN Err("NotOwner", s)
    ELSE LET c == s.owned_tokens_count[caller] IN
         IF c = None THEN Err("CannotFetchValue", s)
         ELSE IF SubOverflows(c[1]) /\ overflow_checks THEN Panic(s)
         ELSE Ok([s EXCEPT !.owned_tokens_count[caller] = Some(WrappingSub(c[1])),
                           !.token_owner[id] = None],
                 <<TransferEvent(caller, ZeroAccount, id)>>)

\* ------------------------------------------------------------ the machine
\* The model follows a counter only while it is within MaxDrift of 0 from
\* either side (0..MaxDrift, or the top MaxDrift values a wrap reaches), and
\* at most MaxGrants operator grants at a time.
InRange(c) ==
    IF c = None THEN TRUE
    ELSE IF c[1][1] = 0 THEN c[1][2] <= MaxDrift
    ELSE c[1][1] = LimbModulus - 1 /\ c[1][2] >= LimbModulus - MaxDrift

InBounds(s) ==
    /\ \A a \in Accounts : InRange(s.owned_tokens_count[a])
    /\ Cardinality(s.operator_approvals) <= MaxGrants

\* Each action below is one message run to its end: the storage becomes the
\* one its outcome holds (for a returned Err too: nothing is rolled back).

\* new() (main.rs 58-61): Default::default(), every mapping empty.  The build
\* profile fixes once and for all whether u32 arithmetic is checked.
Init ==
    /\ token_owner = [id \in Tokens |-> None]
    /\ token_approvals = [id \in Tokens |-> None]
    /\ owned_tokens_count = [a \in Accounts |-> None]
    /\ operator_approvals = {}
    /\ overflow_checks \in BOOLEAN
    /\ scenario = [a |-> ZeroAccount, b |-> ZeroAccount, c |-> ZeroAccount,
                   id |-> 1, pc |-> "none", res |-> "none"]

Mint ==
    \E caller \in Accounts, id \in Tokens :
        \E r \in {mint(Storage, caller, id)} :
        /\ InBounds(r.st)
        /\ token_owner' = r.st.token_owner
        /\ token_approvals' = r.st.token_approvals
        /\ owned_tokens_count' = r.st.owned_tokens_count
        /\ operator_approvals' = r.st.operator_approvals
        /\ UNCHANGED <<overflow_checks, scenario>>

Burn ==
    \E caller \in Accounts, id \in Tokens :
        \E r \in {burn(Storage, caller, id)} :
        /\ InBounds(r.st)
        /\ token_owner' = r.st.token_owner
        /\ token_approvals' = r.st.token_approvals
        /\ owned_tokens_count' = r.st.owned_tokens_count
        /\ operator_approvals' = r.st.operator_approvals
        /\ UNCHANGED <<overflow_checks, scenario>>

Transfer ==
    \E caller \in Accounts, destination \in Accounts, id \in Tokens :
        \E r \in {transfer(Storage, caller, destination, id)} :
        /\ InBounds(r.st)
        /\ token_owner' = r.st.token_owner
        /\ token_approvals' = r.st.token_approvals
        /\ owned_tokens_count' = r.st.owned_tokens_count
        /\ operator_approvals' = r.st.operator_approvals
        /\ UNCHANGED <<overflow_checks, scenario>>

TransferFrom ==
    \E caller \in Accounts, from \in Accounts, to \in Accounts, id \in Tokens :
        \E r \in {transfer_from(Storage, caller, from, to, id)} :
        /\ InBounds(r.st)
        /\ token_owner' = r.st.token_owner
        /\ token_approvals' = r.st.token_approvals
        /\ owned_tokens_count' = r.st.owned_tokens_count
        /\ operator_approvals' = r.st.operator_approvals
        /\ UNCHANGED <<overflow_checks, scenario>>

Approve ==
    \E caller \in Accounts, to \in Accounts, id \in Tokens :
        \E r \in {approve(Storage, caller, to, id)} :
        /\ InBounds(r.st)
        /\ token_owner' = r.st.token_owner
        /\ token_approvals' = r.st.token_approvals
        /\ owned_tokens_count' = r.st.owned_tokens_count
        /\ operator_approvals' = r.st.operator_approvals
        /\ UNCHANGED <<overflow_checks, scenario>>

SetApprovalForAll ==
    \E caller \in Accounts, to \in Accounts, approved \in BOOLEAN :
        \E r \in {set_approval_for_all(Storage, caller, to, approved)} :
        /\ InBounds(r.st)
        /\ token_owner' = r.st.token_owner
        /\ token_approvals' = r.st.token_approvals
        /\ owned_tokens_count' = r.st.owned_tokens_count
        /\ operator_approvals' = r.st.operator_approvals
        /\ UNCHANGED <<overflow_checks, scenario>>

\* The accounts a scripted run draws its three parties from.
ScenarioAccounts == 0..MaxScenarioAccount

\* A fresh ledger (new(), main.rs 58-61) and a script: a mints id, a approves
\* b for id, b calls transfer_from(a, c, id), c burns id.
ScenarioInit ==
    /\ token_owner = [id \in Tokens |-> None]
    /\ token_approvals = [id \in Tokens |-> None]
    /\ owned_tokens_count = [a \in ScenarioAccounts |-> None]
    /\ operator_approvals = {}
    /\ overflow_checks \in BOOLEAN
    /\ scenario \in [a : ScenarioAccounts, b : ScenarioAccounts,
                      c : ScenarioAccounts, id : Tokens,
                      pc : {"mint"}, res : {"none"}]

ScenarioMint ==
    /\ scenario.pc = "mint"
    /\ \E r \in {mint(Storage, scenario.a, scenario.id)} :
        /\ token_owner' = r.st.token_owner
        /\ token_approvals' = r.st.token_approvals
        /\ owned_tokens_count' = r.st.owned_tokens_count
        /\ operator_approvals' = r.st.operator_approvals
        /\ scenario' = [scenario EXCEPT !.pc = "approve", !.res = r.res]
        /\ UNCHANGED overflow_checks

ScenarioApprove ==
    /\ scenario.pc = "approve"
    /\ \E r \in {approve(Storage, scenario.a, scenario.b, scenario.id)} :
        /\ token_owner' = r.st.token_owner
        /\ token_approvals' = r.st.token_approvals
        /\ owned_tokens_count' = r.st.owned_tokens_count
        /\ operator_approvals' = r.st.operator_approvals
        /\ scenario' = [scenario EXCEPT !.pc = "transfer_from", !.res = r.res]
        /\ UNCHANGED overflow_checks

ScenarioTransferFrom ==
    /\ scenario.pc = "transfer_from"
    /\ \E r \in {transfer_from(Storage, scenario.b, scenario.a, scenario.c,
                                scenario.id)} :
        /\ token_owner' = r.st.token_owner
        /\ token_approvals' = r.st.token_approvals
        /\ owned_tokens_count' = r.st.owned_tokens_count
        /\ operator_approvals' = r.st.operator_approvals
        /\ scenario' = [scenario EXCEPT !.pc = "burn", !.res = r.res]
        /\ UNCHANGED overflow_checks

ScenarioBurn ==
    /\ scenario.pc = "burn"
    /\ \E r \in {burn(Storage, scenario.c, scenario.id)} :
        /\ token_owner' = r.st.token_owner
        /\ token_approvals' = r.st.token_approvals
        /\ owned_tokens_count' = r.st.owned_tokens_count
        /\ operator_approvals' = r.st.operator_approvals
        /\ scenario' = [scenario EXCEPT !.pc = "done", !.res = r.res]
        /\ UNCHANGED overflow_checks

ScenarioNext == ScenarioMint \/ ScenarioApprove \/ ScenarioTransferFrom \/ ScenarioBurn

ScenarioSpec == ScenarioInit /\ [][ScenarioNext]_vars

Next == Mint \/ Burn \/ Transfer \/ TransferFrom \/ Approve \/ SetApprovalForAll

Spec == Init /\ [][Next]_vars

\* ------------------------------------------------- vocabulary of the claims
\* The token ids whose recorded owner is account a.
OwnedBy(s, a) == {id \in Tokens : s.token_owner[id] = Some(a)}

\* token_delegate(id): the recorded single-token delegate.
token_delegate(s, id) == s.token_approvals[id]

\* b is the u32 one above a (no wrap).
OneMore(a, b) ==
    IF a[2] < LimbModulus - 1 THEN b = <<a[1], a[2] + 1>>
    ELSE a[1] < LimbModulus - 1 /\ b = <<a[1] + 1, 0>>

\* The authorization of spec section 4.3, read off the tables.
MayAct(s, caller, id) ==
    /\ caller # ZeroAccount
    /\ \/ s.token_owner[id] = Some(caller)
       \/ s.token_approvals[id] = Some(caller)
       \/ \E o \in Accounts :
              s.token_owner[id] = Some(o) /\ <<o, caller>> \in s.operator_approvals

\* The outcomes of every transfer / transfer_from call that can be made in
\* storage s, each with the call that yields it.
TransferCalls(s) ==
    {[caller |-> c, from |-> c, to |-> d, id |-> id, r |-> transfer(s, c, d, id)] :
        c \in Accounts, d \in Accounts, id \in Tokens}
    \cup
    {[caller |-> c, from |-> f, to |-> d, id |-> id,
      r |-> transfer_from(s, c, f, d, id)] :
        c \in Accounts, f \in Accounts, d \in Accounts, id \in Tokens}

\* The outcomes of every call of every message that can be made in storage s.
AllOutcomes(s) ==
    {x.r : x \in TransferCalls(s)}
    \cup {mint(s, c, id) : c \in Accounts, id \in Tokens}
    \cup {burn(s, c, id) : c \in Accounts, id \in Tokens}
    \cup {approve(s, c, d, id) : c \in Accounts, d \in Accounts, id \in Tokens}
    \cup {set_approval_for_all(s, c, d, b) :
             c \in Accounts, d \in Accounts, b \in BOOLEAN}

\* ------------------------------------------------------------------ C1
\* C1: in every reachable state, for every account A, balance_of(A) equals
\* the number of token ids whose owner_of is A.
C1_BalanceIsOwnedCount ==
    \A a \in Accounts :
        balance_of(Storage, a) = U32(Cardinality(OwnedBy(Storage, a)))

\* ------------------------------------------------------------------ C2
\* C2: every successful transfer / transfer_from moves the token from its
\* recorded owner: afterwards owner_of(id) = to, the previous owner's balance
\* is one lower and to's one higher (unchanged when they are the same
\* account), and no other balance changes, whoever called and whatever
\* `from` was supplied.
C2_TransferDebitsRecordedOwner ==
    \A x \in TransferCalls(Storage) :
        x.r.res = "Ok" =>
            LET o == owner_of(Storage, x.id)[1] IN
            /\ owner_of(x.r.st, x.id) = Some(x.to)
            /\ \A a \in Accounts :
                   IF a = o /\ a # x.to
                   THEN OneMore(balance_of(x.r.st, a), balance_of(Storage, a))
                   ELSE IF a = x.to /\ a # o
                   THEN OneMore(balance_of(Storage, a), balance_of(x.r.st, a))
                   ELSE balance_of(x.r.st, a) = balance_of(Storage, a)

\* ------------------------------------------------------------------ C3
\* C3: whenever a public operation returns an error, all four tables are
\* what they were before the call.
C3_ErrorLeavesTablesUnchanged ==
    \A r \in AllOutcomes(Storage) : r.res \in Error => r.st = Storage

\* ------------------------------------------------------------------ C4
\* C4: on an existing token, a transfer / transfer_from succeeds only if the
\* caller is not NULL and is the recorded owner, the recorded delegate or a
\* registered operator of the recorded owner; every other caller gets
\* NotApproved, whatever `from` it supplies.
C4_TransferNeedsAuthorizedCaller ==
    \A x \in TransferCalls(Storage) :
        exists(Storage, x.id) =>
            /\ x.r.res = "Ok" => MayAct(Storage, x.caller, x.id)
            /\ ~MayAct(Storage, x.caller, x.id) => x.r.res = "NotApproved"

\* A delegate or operator that is not the owner transfers with success, and
\* a caller that may not act names the owner as `from`.
C4_Witness ==
    /\ \E x \in TransferCalls(Storage) :
           /\ x.r.res = "Ok"
           /\ owner_of(Storage, x.id) # Some(x.caller)
    /\ \E x \in TransferCalls(Storage) :
           /\ exists(Storage, x.id)
           /\ ~MayAct(Storage, x.caller, x.id)
           /\ owner_of(Storage, x.id) = Some(x.from)
           /\ x.r.res = "NotApproved"

\* ------------------------------------------------------------------ C5
\* C5: after every successful transfer / transfer_from of token id, id has
\* no recorded single-token delegate.
C5_TransferClearsDelegate ==
    \A x \in TransferCalls(Storage) :
        x.r.res = "Ok" => token_delegate(x.r.st, x.id) = None

\* A token with a recorded delegate is transferred with success, once by
\* the delegate and once by another caller.
C5_Witness ==
    /\ \E x \in TransferCalls(Storage) :
           /\ x.r.res = "Ok"
           /\ token_delegate(Storage, x.id) = Some(x.caller)
    /\ \E x \in TransferCalls(Storage) :
           /\ x.r.res = "Ok"
           /\ token_delegate(Storage, x.id) # None
           /\ token_delegate(Storage, x.id) # Some(x.caller)

\* ------------------------------------------------------------------ C6
\* C6: in every reachable state, a token id with a recorded single-token
\* delegate also has a recorded owner.
C6_DelegateOnlyOnExistingToken ==
    \A id \in Tokens : token_delegate(Storage, id) # None => exists(Storage, id)

\* ------------------------------------------------------------------ C7
\* C7: by an authorized caller on an existing token, every transfer /
\* transfer_from to the NULL sentinel and every approve of the NULL sentinel
\* fails with NotAllowed and leaves the four tables unchanged.
C7_NullTargetRejected ==
    /\ \A x \in TransferCalls(Storage) :
           (exists(Storage, x.id) /\ MayAct(Storage, x.caller, x.id)
                /\ x.to = ZeroAccount)
           => (x.r.res = "NotAllowed" /\ x.r.st = Storage)
    /\ \A c \in Accounts, id \in Tokens :
           (exists(Storage, id)
                /\ (owner_of(Storage, id) = Some(c)
                    \/ approved_for_all(Storage, owner_of(Storage, id)[1], c)))
           => LET r == approve(Storage, c, ZeroAccount, id) IN
              r.res = "NotAllowed" /\ r.st = Storage

\* ------------------------------------------------------------------ C8
\* C8: in every reachable state the NULL sentinel is neither the recorded
\* owner nor the recorded single-token delegate of any token.
C8_NullNeverOwnerNorDelegate ==
    \A id \in Tokens :
        /\ owner_of(Storage, id) # Some(ZeroAccount)
        /\ token_delegate(Storage, id) # Some(ZeroAccount)

\* ------------------------------------------------------------------ C9
\* C9: mint(id) on an id that has an owner fails with TokenExists and leaves
\* owner_of(id) and every balance unchanged; mint(id) on an id with no owner
\* by a non-NULL caller succeeds, sets owner_of(id) to the caller and raises
\* only the caller's balance, by exactly 1.
C9_Mint ==
    \A c \in Accounts, id \in Tokens :
        LET r == mint(Storage, c, id) IN
        /\ exists(Storage, id) =>
               /\ r.res = "TokenExists"
               /\ owner_of(r.st, id) = owner_of(Storage, id)
               /\ \A a \in Accounts : balance_of(r.st, a) = balance_of(Storage, a)
        /\ (~exists(Storage, id) /\ c # ZeroAccount) =>
               /\ r.res = "Ok"
               /\ owner_of(r.st, id) = Some(c)
               /\ OneMore(balance_of(Storage, c), balance_of(r.st, c))
               /\ \A a \in Accounts \ {c} :
                      balance_of(r.st, a) = balance_of(Storage, a)

\* ------------------------------------------------------------------ C10
\* C10: after a successful burn(id) by its owner, owner_of(id) is none,
\* exists(id) is false, the owner's balance is exactly 1 lower than before,
\* and no other token's owner and no other account's balance has changed.
C10_Burn ==
    \A c \in Accounts, id \in Tokens :
        LET r == burn(Storage, c, id) IN
        r.res = "Ok" =>
            /\ owner_of(r.st, id) = None
            /\ ~exists(r.st, id)
            /\ OneMore(balance_of(r.st, c), balance_of(Storage, c))
            /\ \A j \in Tokens \ {id} : owner_of(r.st, j) = owner_of(Storage, j)
            /\ \A a \in Accounts \ {c} :
                   balance_of(r.st, a) = balance_of(Storage, a)

\* ------------------------------------------------------------------ C11
\* The caller is the recorded owner of id, or a registered operator of it:
\* who may approve (spec section 4.4).
MayApprove(s, caller, id) ==
    \/ s.token_owner[id] = Some(caller)
    \/ \E o \in Accounts :
           s.token_owner[id] = Some(o) /\ <<o, caller>> \in s.operator_approvals

\* C11: burn(id) succeeds only when the caller is the token's recorded
\* owner; on an existing token any other caller (a delegate or an operator
\* too) gets NotOwner, on a nonexistent token every caller gets
\* TokenNotFound, and in both cases the tables are unchanged.
C11_BurnIsOwnerOnly ==
    \A c \in Accounts, id \in Tokens :
        LET r == burn(Storage, c, id) IN
        /\ r.res = "Ok" => owner_of(Storage, id) = Some(c)
        /\ (exists(Storage, id) /\ owner_of(Storage, id) # Some(c)) =>
               (r.res = "NotOwner" /\ r.st = Storage)
        /\ ~exists(Storage, id) => (r.res = "TokenNotFound" /\ r.st = Storage)

\* The token's delegate and an operator of its owner are each refused, and
\* a burn of a token that does not exist is refused too.
C11_Witness ==
    /\ \E c \in Accounts, id \in Tokens :
           /\ exists(Storage, id) /\ owner_of(Storage, id) # Some(c)
           /\ token_delegate(Storage, id) = Some(c)
           /\ burn(Storage, c, id).res = "NotOwner"
    /\ \E c \in Accounts, id \in Tokens :
           /\ exists(Storage, id) /\ owner_of(Storage, id) # Some(c)
           /\ approved_for_all(Storage, owner_of(Storage, id)[1], c)
           /\ burn(Storage, c, id).res = "NotOwner"
    /\ \E c \in Accounts, id \in Tokens :
           ~exists(Storage, id) /\ burn(Storage, c, id).res = "TokenNotFound"

\* ------------------------------------------------------------------ C12
\* C12: on an existing token, approve(to, id) by a caller that is neither
\* the recorded owner nor a registered operator of the owner (the current
\* delegate included) fails with NotAllowed and records no delegate; by the
\* owner or an operator of the owner, with non-NULL `to` and an empty slot,
\* it succeeds and token_delegate(id) becomes `to`.
C12_ApproveNeedsOwnerOrOperator ==
    \A c \in Accounts, to \in Accounts, id \in Tokens :
        exists(Storage, id) =>
            LET r == approve(Storage, c, to, id) IN
            /\ ~MayApprove(Storage, c, id) =>
                   (r.res = "NotAllowed" /\ r.st = Storage)
            /\ (MayApprove(Storage, c, id) /\ to # ZeroAccount
                    /\ token_delegate(Storage, id) = None) =>
                   /\ r.res = "Ok"
                   /\ token_delegate(r.st, id) = Some(to)

\* The current delegate is refused, and an operator that is not the owner
\* approves with success.
C12_Witness ==
    /\ \E c \in Accounts, to \in Accounts, id \in Tokens :
           /\ token_delegate(Storage, id) = Some(c) /\ exists(Storage, id)
           /\ ~MayApprove(Storage, c, id)
           /\ approve(Storage, c, to, id).res = "NotAllowed"
    /\ \E c \in Accounts, to \in Accounts, id \in Tokens :
           /\ exists(Storage, id) /\ owner_of(Storage, id) # Some(c)
           /\ approve(Storage, c, to, id).res = "Ok"

\* ------------------------------------------------------------------ C13
\* The outcomes of every call that is not a transfer / transfer_from.
OtherOutcomes(s) ==
    {mint(s, c, id) : c \in Accounts, id \in Tokens}
    \cup {burn(s, c, id) : c \in Accounts, id \in Tokens}
    \cup {approve(s, c, d, id) : c \in Accounts, d \in Accounts, id \in Tokens}
    \cup {set_approval_for_all(s, c, d, b) :
             c \in Accounts, d \in Accounts, b \in BOOLEAN}

\* A recorded delegate of id is changed by no call but a transfer of id,
\* which can only clear it.
SlotClearedOnlyByTransfer ==
    \A id \in Tokens :
        token_delegate(Storage, id) # None =>
            /\ \A r \in OtherOutcomes(Storage) :
                   token_delegate(r.st, id) = token_delegate(Storage, id)
            /\ \A x \in TransferCalls(Storage) :
                   IF x.id = id
                   THEN token_delegate(x.r.st, id)
                            \in {token_delegate(Storage, id), None}
                   ELSE token_delegate(x.r.st, id) = token_delegate(Storage, id)

\* After a successful transfer of id the slot is empty and an approve by the
\* new owner succeeds.
NewOwnerCanApprove ==
    \A x \in TransferCalls(Storage) :
        x.r.res = "Ok" =>
            /\ token_delegate(x.r.st, x.id) = None
            /\ \A d \in Accounts \ {ZeroAccount} :
                   LET r == approve(x.r.st, x.to, d, x.id) IN
                   r.res = "Ok" /\ token_delegate(r.st, x.id) = Some(d)

\* C13 as amended: an authorized approve(to, id) with non-NULL `to`, issued
\* while id has a recorded delegate, fails with CannotInsert and leaves the
\* delegate unchanged, also when `to` equals it; the slot changes only by a
\* transfer of id clearing it, after which an approve by the new owner
\* succeeds.
C13_SingleSlot ==
    /\ \A c \in Accounts, to \in Accounts \ {ZeroAccount}, id \in Tokens :
           (MayApprove(Storage, c, id) /\ token_delegate(Storage, id) # None) =>
               LET r == approve(Storage, c, to, id) IN
               r.res = "CannotInsert" /\ r.st = Storage
    /\ SlotClearedOnlyByTransfer
    /\ NewOwnerCanApprove

\* C13 as written: every authorized approve(to, id) issued while id has a
\* recorded delegate fails with CannotInsert, whatever `to` is; the slot
\* changes only by a transfer of id clearing it, after which an approve by
\* the new owner succeeds.
C13_SingleSlotAnyTarget ==
    /\ \A c \in Accounts, to \in Accounts, id \in Tokens :
           (MayApprove(Storage, c, id) /\ token_delegate(Storage, id) # None) =>
               LET r == approve(Storage, c, to, id) IN
               r.res = "CannotInsert" /\ token_delegate(r.st, id) = token_delegate(Storage, id)
    /\ SlotClearedOnlyByTransfer
    /\ NewOwnerCanApprove

\* The owner re-approves the recorded delegate and is refused; a transfer
\* of the token then succeeds, and the new owner fills the slot again.
C13_Witness ==
    \E id \in Tokens, d \in Accounts \ {ZeroAccount} :
        /\ token_delegate(Storage, id) = Some(d)
        /\ exists(Storage, id)
        /\ approve(Storage, owner_of(Storage, id)[1], d, id).res = "CannotInsert"
        /\ \E x \in TransferCalls(Storage) :
               /\ x.id = id /\ x.r.res = "Ok"
               /\ approve(x.r.st, x.to, d, id).res = "Ok"

\* ------------------------------------------------------------------ C14
\* C14: while (G, operator) is registered, which is from G's
\* set_approval_for_all(operator, true) until G's
\* set_approval_for_all(operator, false), transfer_from(G, to, id) by the
\* operator (a real account) with non-NULL `to` succeeds for every token G
\* owns at the time of the call; once the pair is not registered, the same
\* call by the operator, who is neither owner nor delegate of id, fails
\* with NotApproved.
C14_OperatorActsWhileRegistered ==
    \A g \in Accounts, op \in Accounts \ {ZeroAccount} :
        \A id \in OwnedBy(Storage, g) :
            IF approved_for_all(Storage, g, op)
            THEN \A to \in Accounts \ {ZeroAccount} :
                     transfer_from(Storage, op, g, to, id).res = "Ok"
            ELSE (op # g /\ token_delegate(Storage, id) # Some(op)) =>
                     \A to \in Accounts :
                         transfer_from(Storage, op, g, to, id).res = "NotApproved"

\* ------------------------------------------------------------------ C15
\* The three parties of the script are distinct real accounts.
ScenarioParties ==
    /\ Cardinality({scenario.a, scenario.b, scenario.c}) = 3
    /\ ZeroAccount \notin {scenario.a, scenario.b, scenario.c}

\* C15: on a fresh ledger, for distinct real accounts A, B, C: after
\* mint(id) by A and approve(B, id) by A, transfer_from(A, C, id) by B
\* succeeds and leaves owner_of(id) = C, balance_of(A) = 0,
\* balance_of(C) = 1 and no delegate for id; a following burn(id) by C
\* succeeds and leaves exists(id) false.
C15_DelegatedTransferThenBurn ==
    ScenarioParties =>
        /\ scenario.pc \in {"approve", "transfer_from"} => scenario.res = "Ok"
        /\ scenario.pc = "burn" =>
               /\ scenario.res = "Ok"
               /\ owner_of(Storage, scenario.id) = Some(scenario.c)
               /\ balance_of(Storage, scenario.a) = U32(0)
               /\ balance_of(Storage, scenario.c) = U32(1)
               /\ token_delegate(Storage, scenario.id) = None
        /\ scenario.pc = "done" =>
               /\ scenario.res = "Ok"
               /\ ~exists(Storage, scenario.id)

\* The script has been played to its end by three distinct real accounts.
C15_Witness ==
    /\ ScenarioParties
    /\ scenario.pc = "done"
    /\ scenario.res = "Ok"
    /\ ~exists(Storage, scenario.id)
    /\ owned_tokens_count[scenario.c] = Some(U32(0))

\* ------------------------------------------------------------------ C16
\* C16: set_approval_for_all(to, approved) with `to` the caller fails with
\* NotAllowed for both values of `approved`, changes no table and emits no
\* notification; no pair (A, A) is ever in the operator-approval set.
C16_NoSelfOperator ==
    /\ \A c \in Accounts, b \in BOOLEAN :
           LET r == set_approval_for_all(Storage, c, c, b) IN
           r.res = "NotAllowed" /\ r.st = Storage /\ r.ev = <<>>
    /\ \A a \in Accounts : <<a, a>> \notin operator_approvals

\* An account that has a registered operator tries to register itself, and
\* to revoke itself, and is refused both times.
C16_Witness ==
    \E c \in Accounts, o \in Accounts :
        /\ <<c, o>> \in operator_approvals
        /\ set_approval_for_all(Storage, c, c, TRUE).res = "NotAllowed"
        /\ set_approval_for_all(Storage, c, c, FALSE).res = "NotAllowed"

\* ------------------------------------------------------------------ C17
\* C17: every successful transfer / transfer_from emits exactly one Transfer
\* notification, whose `from` is the token's recorded owner immediately
\* before the call and whose `to` and `id` are the destination and the
\* token; a failing call emits no notification.
C17_TransferEventNamesRecordedOwner ==
    \A x \in TransferCalls(Storage) :
        IF x.r.res = "Ok"
        THEN /\ exists(Storage, x.id)
             /\ x.r.ev = <<TransferEvent(owner_of(Storage, x.id)[1], x.to, x.id)>>
        ELSE x.r.ev = <<>>

\* ------------------------------------------------------------------ C18
\* C18: no call made in any reachable state returns CannotFetchValue.
C18_NeverCannotFetchValue ==
    \A r \in AllOutcomes(Storage) : r.res # "CannotFetchValue"

\* ------------------------------------------------------------------ C19
\* C19: transfer, transfer_from and approve on a token id with no owner, by
\* any caller, return an error value and leave the state unchanged; none of
\* them reaches the unwrap of the absent owner.
C19_NoOwnerNeverFaults ==
    \A id \in Tokens :
        ~exists(Storage, id) =>
            \A c \in Accounts, d \in Accounts :
                /\ LET r == transfer(Storage, c, d, id) IN
                   r.res \in Error /\ r.st = Storage
                /\ \A f \in Accounts :
                       LET r == transfer_from(Storage, c, f, d, id) IN
                       r.res \in Error /\ r.st = Storage
                /\ LET r == approve(Storage, c, d, id) IN
                   r.res \in Error /\ r.st = Storage

\* ------------------------------------------------------------------ C20
\* C20: no call made in any reachable state decrements a balance counter
\* whose value is 0, in burn or in remove_token_from (a transfer_from whose
\* `from` is not the owner included).
C20_NoDecrementOfZero ==
    /\ \A c \in Accounts, id \in Tokens :
           burn_operand(Storage, c, id) # Some(U32(0))
    /\ \A c \in Accounts, f \in Accounts, d \in Accounts, id \in Tokens :
           transfer_token_from_operand(Storage, c, f, d, id) # Some(U32(0))
=============================================================================
